---------------------------- MODULE Spec2Model ----------------------------
(***************************************************************************)
(* The Aurora restore pipeline: eleven step handlers chained by            *)
(* asynchronous dispatch, sharing one state table, one audit table and     *)
(* the cloud side (the copied snapshot, the target cluster).               *)
(*                                                                         *)
(* One operation is modelled.  Every handler invocation is one atomic      *)
(* action, computed by an outcome operator translated from the handler's   *)
(* lambda_handler.  Names are bound as the handler file's import           *)
(* statements bind them (validate_required_params and validate_region of   *)
(* utils/common.py raise or return None; they never return a list or a     *)
(* boolean); a name the handler file never imports (load_state in four     *)
(* handlers, `this` in verify_restore) or an attribute the class never     *)
(* defines (self.load_state) raises when the handler reaches it, and the   *)
(* handler's own except clause decides what happens next.                  *)
(*                                                                         *)
(* The records the handlers save carry operation_id and timestamp and no   *)
(* step attribute; the state table is modelled as the log of the records   *)
(* put for the operation, and load_state(operation_id) returns the most    *)
(* recent one.  `writer` is the handler whose save put the record (it is   *)
(* history, not an attribute the code stores).  That is the table as the   *)
(* handlers take it to be.  The key schema of the table is not in the      *)
(* source; the section on the state table models put_item and the latest   *)
(* query for a sort key `step` (the key load_state's get_item names) and   *)
(* for a sort key `timestamp`.  The state table, the dispatch call and the *)
(* audit and metric sinks can each be down for a whole run.                *)
(***************************************************************************)
EXTENDS Naturals, Sequences, FiniteSets, TLC

VARIABLES cfg, store, pending, ssnap, tsnap, cluster, last, opsLeft, dupLeft,
          inflight, roles, res, sinks, statedb, table, invoker

vars == <<cfg, store, pending, ssnap, tsnap, cluster, last, opsLeft, dupLeft,
          inflight, roles, res, sinks,
          statedb, table, invoker>>

---------------------------------------------------------------------------
(* Bounds of the model *)

\* records kept in the state log of the operation
MaxRecords == 4
\* invocations made by an operator (start of a run, replays)
MaxOperator == 2
\* events the dispatcher delivers a second time (at-least-once delivery)
MaxDup == 1
\* invocations of the operation that may run at the same time
MaxInFlight == 2
\* longest value of an environment variable that is to be an integer
MaxLen == 2
\* the configured max_copy_attempts (MAX_COPY_ATTEMPTS, an integer of at least
\* 1, 60 when not configured), taken small enough for the polls to reach it
MaxCopyAttempts == 2

---------------------------------------------------------------------------
(* Names *)

PollingSteps == {"check_copy_status", "check_delete_status", "check_restore_status"}

\* the regions boto3 knows for the rds service
ValidRegions == {"us-east-1", "eu-west-1"}

\* a value Python treats as false in `a or b` and that validate_required_params
\* reports missing: None or the empty string
None == ""

Or(a, b) == IF a # None THEN a ELSE b

\* an event date: <<>> when the event has no date, else <<year, month, day>>
NoDate == <<>>
Dates == {NoDate, <<2024, 6, 10>>, <<2023, 2, 29>>}

IsLeap(y) == (y % 4 = 0 /\ y % 100 # 0) \/ y % 400 = 0

DaysIn(y, m) ==
    IF m = 2 THEN (IF IsLeap(y) THEN 29 ELSE 28)
    ELSE IF m \in {4, 6, 9, 11} THEN 30 ELSE 31

\* a parser that takes any day up to 31 in any month
DateParsesLoosely(d) ==
    /\ d[2] \in 1..12
    /\ d[3] \in 1..31

\* datetime.strptime(date_str, '%Y-%m-%d') succeeds
DateParses(d) ==
    /\ d[2] \in 1..12
    /\ d[3] \in 1..DaysIn(d[1], d[2])

---------------------------------------------------------------------------
(* Records: the dictionaries the handlers save and send *)

\* the attributes of a saved state / an event payload that a later handler reads
Blank ==
    [writer |-> None, success |-> "none", error |-> None,
     snapshot_name |-> None, snapshot_arn |-> None,
     source_region |-> None, target_region |-> None,
     target_snapshot_name |-> None, target_cluster_id |-> None,
     cluster_endpoint |-> None, status |-> None]

\* load_state: the latest record of the operation, or {} (here Blank, writer None)
load_state == IF Len(store) = 0 THEN Blank ELSE store[Len(store)]

StateIsEmpty(state) == state.writer = None

\* state.get('success', False)
StateSuccess(state) == state.success = "true"

\* validate_required_params(params) of utils/common.py raises ValueError when a
\* value is None or blank; otherwise it returns None
RequiredParamsRaise(values) == None \in values

\* validate_region(region) of utils/common.py raises ValueError for an empty or
\* unknown region; otherwise it returns None
ValidateRegionRaises(region) == region \notin ValidRegions

\* a validate_region that returns True for a region it accepts
ValidateRegionReturnsTrue == TRUE

\* the value validate_region returns when it does not raise: None, which the
\* handlers that test `if not validate_region(...)` read as false
ValidateRegionReturn == FALSE

\* f"{snapshot_name}-copy"
CopyName(snapshot_name) ==
    IF snapshot_name = "snap" THEN "snap-copy" ELSE "other-copy"


---------------------------------------------------------------------------
(* Events and outcomes *)

\* the event trigger_next_step sends: the state dictionary, for the next step
Event(next_step, state) == [step |-> next_step, date |-> NoDate, body |-> state]

\* What the cloud does to the calls of one invocation (each handler is given
\* the faults its calls can meet): "ok" answers every call; "empty_list"
\* answers a describe of an absent snapshot with an empty list and not with a
\* not-found fault; "not_found" answers it with the not-found fault; under
\* both a copy that has only just been started is not visible yet and is
\* reported like an absent one; "error1" / "error2" fail the first / the second cloud call
\* with a ClientError that is no not-found and no state fault (throttling,
\* access denied).

\* the status describe_db_cluster_snapshots reports for a snapshot in the
\* target region: the copy is there, the source snapshot "snap" only when
\* the target region is the source region
SnapshotStatus(name) ==
    IF name = "snap-copy" THEN tsnap
    ELSE IF name = "snap" /\ cfg.source_region = cfg.target_region THEN ssnap
    ELSE "absent"

\* the copy has only just been started: nothing has been recorded since
\* copy_snapshot saved its record
JustStarted == load_state.writer = "copy_snapshot"

\* what check_copy_status's describe_db_cluster_snapshots sees of a snapshot
\* in the target region: its status, or nothing while a copy just started
\* has not become visible
DescribeSnapshot(name, env) ==
    IF /\ env \in {"empty_list", "not_found"}
       /\ SnapshotStatus(name) = "copying"
       /\ JustStarted
    THEN "absent"
    ELSE SnapshotStatus(name)

\* what one invocation did: the response code, why, the records it saved (in
\* order), the events it dispatched, the audit events it logged, the mutating
\* cloud calls it issued, and the cloud side afterwards
Outcome(status, cause) ==
    [status |-> status, cause |-> cause, writes |-> <<>>, disp |-> {},
     audits |-> {}, calls |-> {}, attempts |-> 0,
     ssnap |-> ssnap, tsnap |-> tsnap, cluster |-> cluster]

Audit(step, status) == [step |-> step, status |-> status]

\* a handle_aws_error that sends the step its event again before it answers
HandleAwsErrorAndRetry(step) ==
    [Outcome(500, "cloud_error") EXCEPT
        !.audits = {Audit(step, "failed")},
        !.disp = {[step |-> step, date |-> NoDate, body |-> Blank]}]

\* handle_aws_error: an audit event with status failed, statusCode 500
HandleAwsError(step) ==
    [Outcome(500, "cloud_error") EXCEPT !.audits = {Audit(step, "failed")}]

\* the state a handler's top-level except clause saves
ErrorState(step) == [Blank EXCEPT !.writer = step, !.success = "false", !.error = "error"]

---------------------------------------------------------------------------
(* snapshot_check *)

\* check_snapshot: the snapshot is looked up among the shared, then the manual
\* snapshots of the source region; an empty answer and a ClientError both
\* count as not found
check_snapshot(snapshot_name, env) ==
    env \notin {"empty_list", "error1"} /\ ssnap = "available" /\ snapshot_name = "snap"

\* The lookup and what follows it (lines 163-429) run only when
\* `if not validate_region(source_region)` lets them, and validate_region
\* returns None whenever it does not raise.
SnapshotCheckOutcome(ev, state, env) ==
    LET snapshot_name == "snap"
        initial_state ==
            [Blank EXCEPT !.writer = "snapshot_check",
                          !.snapshot_name = snapshot_name,
                          !.source_region = cfg.source_region,
                          !.target_region = cfg.target_region,
                          !.target_cluster_id = cfg.target_cluster_id,
                          !.status = "checking"]
        failed_state ==
            [initial_state EXCEPT !.success = "false", !.error = "error",
                                  !.status = "failed"]
        found_state ==
            [initial_state EXCEPT !.success = "true", !.snapshot_arn = "arn",
                                  !.status = "found"]
    IN
    IF ev.date # NoDate /\ ~DateParses(ev.date)
    THEN [Outcome(400, "invalid_date") EXCEPT
            !.audits = {Audit("snapshot_check", "failed")}]
    ELSE IF \/ RequiredParamsRaise({cfg.source_region, cfg.source_cluster_id})
            \/ ValidateRegionRaises(cfg.source_region)
    THEN \* ValueError, caught by the top-level except clause
         [Outcome(500, "internal_error") EXCEPT
            !.writes = <<ErrorState("snapshot_check")>>,
            !.audits = {Audit("snapshot_check", "failed")}]
    ELSE IF ~ValidateRegionReturn
    THEN [Outcome(400, "invalid_region") EXCEPT
            !.audits = {Audit("snapshot_check", "failed")}]
    ELSE IF ~check_snapshot(snapshot_name, env)
    THEN [Outcome(404, "artifact_missing") EXCEPT
            !.writes = <<initial_state, failed_state>>,
            !.audits = {Audit("snapshot_check", "failed")}]
    ELSE [Outcome(200, "ok") EXCEPT
            !.writes = <<initial_state, found_state>>,
            !.audits = {Audit("snapshot_check", "success")},
            !.disp = {Event("copy_snapshot", found_state)}]

---------------------------------------------------------------------------
(* copy_snapshot *)

\* MAX_ATTEMPTS of utils/common.py, which no handler uses
MAX_ATTEMPTS == 10

\* copy_db_cluster_snapshot is called once, in a try with no loop and no
\* retry decorator around it
CopyAttempts == 1

\* a copy that is never taken for one within a region
NeverSameRegion(source_region, target_region) == FALSE

\* `if source_region == target_region:` no copy is needed, the snapshot is
\* used where it is
SameRegionCopy(source_region, target_region) == source_region = target_region

CopySnapshotOutcome(ev, state, env) ==
    LET source_region == Or(ev.body.source_region, cfg.source_region)
        target_region == Or(ev.body.target_region, cfg.target_region)
        snapshot_name == Or(state.snapshot_name, ev.body.snapshot_name)
        snapshot_arn == Or(state.snapshot_arn, ev.body.snapshot_arn)
        target_snapshot_name ==
            Or(ev.body.target_snapshot_name,
               Or(state.target_snapshot_name, CopyName(snapshot_name)))
        new_state(tsn, copy_status) ==
            [Blank EXCEPT !.writer = "copy_snapshot", !.success = "true",
                          !.snapshot_name = snapshot_name,
                          !.snapshot_arn = snapshot_arn,
                          !.source_region = source_region,
                          !.target_region = target_region,
                          !.target_snapshot_name = tsn,
                          !.status = copy_status]
    IN
    IF ~StateIsEmpty(state) /\ ~StateSuccess(state)
    THEN Outcome(400, "prev_failed")
    ELSE IF RequiredParamsRaise({snapshot_name, snapshot_arn, source_region, target_region})
    THEN [Outcome(500, "missing_params") EXCEPT
            !.writes = <<ErrorState("copy_snapshot")>>,
            !.audits = {Audit("copy_snapshot", "failed")}]
    ELSE IF SameRegionCopy(source_region, target_region)
    THEN [Outcome(200, "ok") EXCEPT
            !.writes = <<new_state(snapshot_name, "available")>>,
            !.audits = {Audit("copy_snapshot", "success")},
            !.disp = {Event("check_copy_status", new_state(snapshot_name, "available"))}]
    ELSE IF env = "error1"
    THEN [HandleAwsError("copy_snapshot") EXCEPT
            !.calls = {"copy"}, !.attempts = CopyAttempts]
    ELSE IF SnapshotStatus(target_snapshot_name) # "absent"
    THEN \* copy_db_cluster_snapshot raises DBClusterSnapshotAlreadyExistsFault
         [HandleAwsError("copy_snapshot") EXCEPT
            !.calls = {"copy"}, !.attempts = CopyAttempts,
            !.cause = "already_exists"]
    ELSE [Outcome(200, "ok") EXCEPT
            !.calls = {"copy"},
            !.attempts = CopyAttempts,
            !.tsnap = "copying",
            !.writes = <<new_state(target_snapshot_name, "copying")>>,
            !.audits = {Audit("copy_snapshot", "success")},
            !.disp = {Event("check_copy_status", new_state(target_snapshot_name, "copying"))}]

---------------------------------------------------------------------------
(* check_copy_status *)

CheckCopyStatusOutcome(ev, state, env) ==
    LET target_snapshot_name ==
            Or(state.target_snapshot_name, ev.body.target_snapshot_name)
        target_region ==
            Or(state.target_region, Or(ev.body.target_region, cfg.target_region))
        source_region ==
            Or(state.source_region, Or(ev.body.source_region, cfg.source_region))
        snapshot_status == DescribeSnapshot(target_snapshot_name, env)
        new_state(success, status) ==
            [Blank EXCEPT !.writer = "check_copy_status", !.success = success,
                          !.target_snapshot_name = target_snapshot_name,
                          !.target_region = target_region,
                          !.source_region = source_region,
                          !.status = status]
    IN
    IF StateIsEmpty(state)
    THEN [Outcome(400, "no_state") EXCEPT
            !.audits = {Audit("check_copy_status", "failed")}]
    ELSE IF ~StateSuccess(state)
    THEN [Outcome(400, "prev_failed") EXCEPT
            !.audits = {Audit("check_copy_status", "skipped")}]
    ELSE IF RequiredParamsRaise({target_snapshot_name, target_region, source_region})
    THEN [Outcome(500, "missing_params") EXCEPT
            !.writes = <<[new_state("false", None) EXCEPT !.error = "error"]>>,
            !.audits = {Audit("check_copy_status", "failed")}]
    ELSE IF ValidateRegionRaises(target_region) \/ ValidateRegionRaises(source_region)
    THEN [Outcome(400, "validation") EXCEPT
            !.audits = {Audit("check_copy_status", "failed")}]
    ELSE IF SameRegionCopy(source_region, target_region)
    THEN [Outcome(200, "ok") EXCEPT
            !.writes = <<new_state("true", "available")>>,
            !.audits = {Audit("check_copy_status", "completed")},
            !.disp = {Event("delete_rds", new_state("true", "available"))}]
    ELSE IF env = "error1"
    THEN [HandleAwsError("check_copy_status") EXCEPT !.calls = {"describe_snapshots"}]
    ELSE IF snapshot_status = "absent" /\ env = "empty_list"
    THEN [Outcome(404, "artifact_missing") EXCEPT
            !.calls = {"describe_snapshots"},
            !.audits = {Audit("check_copy_status", "failed")}]
    ELSE IF snapshot_status = "absent"
    THEN \* DBClusterSnapshotNotFoundFault: wait and poll again
         [Outcome(202, "in_progress") EXCEPT
            !.calls = {"describe_snapshots"},
            !.writes = <<new_state("true", "waiting")>>,
            !.audits = {Audit("check_copy_status", "waiting")},
            !.disp = {Event("check_copy_status", new_state("true", "waiting"))}]
    ELSE IF snapshot_status = "available"
    THEN [Outcome(200, "ok") EXCEPT
            !.calls = {"describe_snapshots"},
            !.writes = <<new_state("true", "available")>>,
            !.audits = {Audit("check_copy_status", "completed")},
            !.disp = {Event("delete_rds", new_state("true", "available"))}]
    ELSE IF snapshot_status = "failed"
    THEN [Outcome(500, "op_failed") EXCEPT
            !.calls = {"describe_snapshots"},
            !.writes = <<[new_state("false", "failed") EXCEPT !.error = "error"]>>,
            !.audits = {Audit("check_copy_status", "failed")}]
    ELSE [Outcome(202, "in_progress") EXCEPT
            !.calls = {"describe_snapshots"},
            !.writes = <<new_state("true", snapshot_status)>>,
            !.audits = {Audit("check_copy_status", "in_progress")},
            !.disp = {Event("check_copy_status", new_state("true", snapshot_status))}]

---------------------------------------------------------------------------
(* delete_rds *)

\* delete_db_cluster accepts a cluster that is available, stopped or failed and
\* raises InvalidDBClusterStateFault for one in any other status
Deletable(status) == status \in {"available", "stopped", "failed"}

DeleteRdsOutcome(ev, state, env) ==
    LET target_region == Or(ev.body.target_region, cfg.target_region)
        target_cluster_id == Or(ev.body.target_cluster_id, cfg.target_cluster_id)
        new_state(status) ==
            [Blank EXCEPT !.writer = "delete_rds", !.success = "true",
                          !.target_cluster_id = target_cluster_id,
                          !.target_region = target_region,
                          !.status = status]
    IN
    IF RequiredParamsRaise({target_cluster_id, target_region})
    THEN [Outcome(500, "missing_params") EXCEPT
            !.writes = <<[ErrorState("delete_rds") EXCEPT
                            !.target_cluster_id = target_cluster_id,
                            !.target_region = target_region]>>,
            !.audits = {Audit("delete_rds", "failed")}]
    ELSE IF ValidateRegionRaises(target_region)
    THEN [Outcome(400, "validation") EXCEPT
            !.audits = {Audit("delete_rds", "failed")}]
    ELSE IF ~StateIsEmpty(state) /\ ~StateSuccess(state)
    THEN [Outcome(400, "prev_failed") EXCEPT
            !.audits = {Audit("delete_rds", "skipped")}]
    ELSE IF env = "error1"
    THEN [HandleAwsError("delete_rds") EXCEPT !.calls = {"describe_clusters"}]
    ELSE IF cluster = "absent"
    THEN \* DBClusterNotFoundFault from describe_db_clusters
         [Outcome(200, "ok") EXCEPT
            !.calls = {"describe_clusters"},
            !.writes = <<new_state("completed")>>,
            !.audits = {Audit("delete_rds", "completed")},
            !.disp = {Event("restore_snapshot", new_state("completed"))}]
    ELSE IF env = "error2"
    THEN [HandleAwsError("delete_rds") EXCEPT !.calls = {"describe_clusters", "delete"}]
    ELSE IF ~Deletable(cluster)
    THEN \* InvalidDBClusterStateFault from delete_db_cluster
         [Outcome(200, "ok") EXCEPT
            !.calls = {"describe_clusters", "delete"},
            !.writes = <<new_state("completed")>>,
            !.audits = {Audit("delete_rds", "completed")},
            !.disp = {Event("restore_snapshot", new_state("completed"))}]
    ELSE [Outcome(200, "ok") EXCEPT
            !.calls = {"describe_clusters", "delete"},
            !.cluster = "deleting",
            !.writes = <<new_state("deleting")>>,
            !.audits = {Audit("delete_rds", "deleting")},
            !.disp = {Event("check_delete_status", new_state("deleting"))}]

---------------------------------------------------------------------------
(* check_delete_status and verify_restore: BaseHandler.execute *)

\* BaseHandler.handle_error: an audit event with status ERROR, statusCode 500
HandleError(step) ==
    [Outcome(500, "internal_error") EXCEPT !.audits = {Audit(step, "ERROR")}]

\* process calls get_cluster_details, whose first statement is
\* self.load_state(): neither the class nor BaseHandler defines it, the
\* AttributeError leaves process and execute answers with handle_error.  A
\* configuration that validate_config rejects ends in handle_error as well.
CheckDeleteStatusOutcome(ev, state, env) == HandleError("check_delete_status")

\* process names `this` in its first statement and again in its except
\* clause: the NameError leaves process and execute answers with handle_error
VerifyRestoreOutcome(ev, state, env) == HandleError("verify_restore")

---------------------------------------------------------------------------
(* restore_snapshot, check_restore_status, setup_db_users, sns_notification *)

\* The first statement after get_config is load_state(operation_id), and the
\* file does not import load_state: NameError, caught by the top-level except
\* clause, which logs an audit event and returns 500 without saving a state.
NameErrorOutcome(step) ==
    [Outcome(500, "internal_error") EXCEPT !.audits = {Audit(step, "failed")}]

RestoreSnapshotOutcome(ev, state, env) == NameErrorOutcome("restore_snapshot")

CheckRestoreStatusOutcome(ev, state, env) == NameErrorOutcome("check_restore_status")

SetupDbUsersOutcome(ev, state, env) == NameErrorOutcome("setup_db_users")

\* The roles of the database of the target cluster, as the two SQL blocks of
\* setup_db_users (lines 299-340) see and leave them.  A role is absent, or
\* it has a password and privileges.
RoleNames == {"app_username", "readonly_username"}

NoRole == [exists |-> FALSE, password |-> None, privileges |-> {}]

NoRoles == [r \in RoleNames |-> NoRole]

\* the secret: the password of each role
Secret(role) == IF role = "app_username" THEN "app_password" ELSE "readonly_password"

\* the GRANT statements of each block
Grants(role) ==
    IF role = "app_username"
    THEN {"CONNECT", "USAGE", "SELECT", "INSERT", "UPDATE", "DELETE"}
    ELSE {"CONNECT", "USAGE", "SELECT"}

\* DO $$ IF NOT EXISTS (...) THEN CREATE USER ... ELSE ALTER USER ... $$;
\* GRANT ...: the role exists afterwards with the password of the secret and
\* what it was granted before together with the grants of the block
RoleSql(db, role) ==
    [db EXCEPT ![role] =
        IF ~db[role].exists
        THEN [exists |-> TRUE, password |-> Secret(role), privileges |-> Grants(role)]
        ELSE [exists |-> TRUE, password |-> Secret(role),
              privileges |-> db[role].privileges \cup Grants(role)]]

\* the two cur.execute calls and the commit
SetupUsersSql(db) == RoleSql(RoleSql(db, "app_username"), "readonly_username")

SnsNotificationOutcome(ev, state, env) == NameErrorOutcome("sns_notification")

---------------------------------------------------------------------------
(* archive_snapshot *)

\* The lookup and the deletion of the copied snapshot (lines 133-329) run only
\* when `if not validate_region(target_region)` lets them.
ArchiveSnapshotOutcome(ev, state, env) ==
    LET target_region == cfg.target_region
        target_snapshot_name == state.target_snapshot_name
        new_state(archive_status) ==
            [Blank EXCEPT !.writer = "archive_snapshot", !.success = "true",
                          !.target_snapshot_name = target_snapshot_name,
                          !.target_region = target_region,
                          !.status = archive_status]
    IN
    IF StateIsEmpty(state)
    THEN [Outcome(400, "no_state") EXCEPT
            !.audits = {Audit("archive_snapshot", "failed")}]
    ELSE IF ~StateSuccess(state)
    THEN [Outcome(400, "prev_failed") EXCEPT
            !.audits = {Audit("archive_snapshot", "failed")}]
    ELSE IF RequiredParamsRaise({target_region, target_snapshot_name})
    THEN [Outcome(500, "missing_params") EXCEPT
            !.audits = {Audit("archive_snapshot", "failed")}]
    ELSE IF ValidateRegionRaises(target_region)
    THEN [Outcome(500, "internal_error") EXCEPT
            !.audits = {Audit("archive_snapshot", "failed")}]
    ELSE IF ~ValidateRegionReturn
    THEN [Outcome(400, "validation") EXCEPT
            !.audits = {Audit("archive_snapshot", "failed")}]
    ELSE IF env = "error1"
    THEN HandleAwsError("archive_snapshot")
    ELSE IF SnapshotStatus(target_snapshot_name) = "absent"
    THEN [Outcome(200, "ok") EXCEPT
            !.writes = <<new_state("skipped")>>,
            !.audits = {Audit("archive_snapshot", "success")}]
    ELSE IF env = "error2"
    THEN [HandleAwsError("archive_snapshot") EXCEPT !.calls = {"delete_snapshot"}]
    ELSE [Outcome(200, "ok") EXCEPT
            !.calls = {"delete_snapshot"},
            !.tsnap = IF target_snapshot_name = "snap-copy" THEN "absent" ELSE tsnap,
            !.ssnap = IF target_snapshot_name = "snap-copy" THEN ssnap ELSE "absent",
            !.writes = <<new_state("deleted")>>,
            !.audits = {Audit("archive_snapshot", "success")}]

---------------------------------------------------------------------------
(* The deployment and the invocations *)

\* get_config: SOURCE_REGION, TARGET_REGION, SOURCE_CLUSTER_ID and
\* TARGET_CLUSTER_ID of the environment ('' when unset)
get_config(source_region, target_region) ==
    [source_region |-> source_region, target_region |-> target_region,
     source_cluster_id |-> "src-cluster", target_cluster_id |-> "tgt-cluster"]

CrossRegion == get_config("us-east-1", "eu-west-1")

SameRegion == get_config("eu-west-1", "eu-west-1")

Configs ==
    {CrossRegion, SameRegion,
     get_config(None, "eu-west-1"),
     get_config("us-east-1", "mars-1")}

\* the payload of an event as snapshot_check would send it to copy_snapshot
ReplayBody ==
    [Blank EXCEPT !.snapshot_name = "snap", !.snapshot_arn = "arn",
                  !.source_region = cfg.source_region,
                  !.target_region = cfg.target_region,
                  !.target_cluster_id = cfg.target_cluster_id]

\* the events an operator invokes a handler with: a dated or undated start for
\* snapshot_check; for copy_snapshot the payload snapshot_check would send,
\* or one with only the operation_id; for the others a payload with only the
\* operation_id
OperatorEvents(step) ==
    IF step = "snapshot_check"
    THEN {[step |-> step, date |-> d, body |-> Blank] : d \in Dates}
    ELSE IF step = "copy_snapshot"
    THEN {[step |-> step, date |-> NoDate, body |-> b] : b \in {Blank, ReplayBody}}
    ELSE {[step |-> step, date |-> NoDate, body |-> Blank]}

\* the ways an event reaches a handler: the dispatcher delivers a pending
\* event ("queue"), delivers one a second time while it stays pending
\* ("dup"), or an operator invokes the handler ("operator")
Deliveries(step) ==
    {[ev |-> e, src |-> "queue"] : e \in {x \in pending : x.step = step}}
    \cup (IF dupLeft > 0
          THEN {[ev |-> e, src |-> "dup"] : e \in {x \in pending : x.step = step}}
          ELSE {})
    \cup (IF opsLeft > 0
          THEN {[ev |-> e, src |-> "operator"] : e \in OperatorEvents(step)}
          ELSE {})

NoInvocation ==
    [step |-> None, src |-> None, status |-> 0, cause |-> None,
     prevWriter |-> None, prevSuccess |-> "none", prevTarget |-> None,
     found |-> None,
     wrote |-> <<>>, disp |-> {}, calls |-> {}, attempts |-> 0, audits |-> {}]

\* no configuration key is being resolved
NoResolution ==
    [phase |-> "none", by |-> None, event |-> None, state |-> None,
     environ |-> None, ssm |-> None, port_environ |-> <<"unset">>,
     value |-> None, port |-> [type |-> "int", int |-> 0, str |-> <<>>]]

\* the state table of an operation nobody has saved to
NoTable == [key |-> None, items |-> {}, saves |-> <<>>, now |-> 0]

\* A new operation: no record, nothing dispatched, nothing running.  The
\* source region holds the dated snapshot or not; the target cluster is
\* there from an earlier run, in whatever status that run left it.
Init ==
    /\ cfg \in Configs
    /\ store = <<>>
    /\ pending = {}
    /\ ssnap \in (IF cfg = SameRegion THEN {"available", "absent"} ELSE {"available"})
    /\ tsnap = "absent"
    /\ cluster \in (IF cfg = SameRegion /\ ssnap = "absent"
                     THEN {"failed"}
                     ELSE IF cfg = SameRegion THEN {"available", "modifying"}
                     ELSE {"available"})
    /\ last = NoInvocation
    /\ opsLeft = MaxOperator
    /\ dupLeft = MaxDup
    /\ inflight = {}
    /\ roles = NoRoles
    /\ res = NoResolution
    /\ sinks \in (IF cfg = SameRegion /\ ssnap = "available" /\ cluster = "available"
                   THEN {"up", "down"}
                   ELSE {"up"})
    /\ statedb \in (IF cfg = CrossRegion THEN {"up", "down"} ELSE {"up"})
    /\ invoker \in (IF cfg = CrossRegion /\ statedb = "up"
                    THEN {"up", "down"} ELSE {"up"})
    /\ table = NoTable

\* the lambda_handler of each step
HandlerOutcome(step, ev, state, env) ==
    CASE step = "snapshot_check" -> SnapshotCheckOutcome(ev, state, env)
      [] step = "copy_snapshot" -> CopySnapshotOutcome(ev, state, env)
      [] step = "check_copy_status" -> CheckCopyStatusOutcome(ev, state, env)
      [] step = "delete_rds" -> DeleteRdsOutcome(ev, state, env)
      [] step = "check_delete_status" -> CheckDeleteStatusOutcome(ev, state, env)
      [] step = "restore_snapshot" -> RestoreSnapshotOutcome(ev, state, env)
      [] step = "check_restore_status" -> CheckRestoreStatusOutcome(ev, state, env)
      [] step = "setup_db_users" -> SetupDbUsersOutcome(ev, state, env)
      [] step = "verify_restore" -> VerifyRestoreOutcome(ev, state, env)
      [] step = "archive_snapshot" -> ArchiveSnapshotOutcome(ev, state, env)
      [] step = "sns_notification" -> SnsNotificationOutcome(ev, state, env)

\* a failure of put_item in log_audit_event or of put_metric_data in
\* update_metrics reaches the handler as an exception
SinkFailurePropagates == TRUE

\* log_audit_event and update_metrics: `except Exception as e:
\* logger.error(...); return False` - nothing is raised to the handler, which
\* ignores the value returned
SinkFailureRaises == FALSE

\* what becomes of the outcome `out` of a handler with the audit table and
\* the metrics service up or down: down, no audit event is stored; were the
\* failure raised, the handler would stop at its first log_audit_event, with
\* what it had saved by then and nothing dispatched
WithSinks(out, sink) ==
    IF sink = "up" THEN out
    ELSE IF SinkFailureRaises /\ out.audits # {}
    THEN [out EXCEPT !.status = 500, !.cause = "internal_error",
                     !.disp = {}, !.audits = {}]
    ELSE [out EXCEPT !.audits = {}]

\* save_state: `except Exception as e: logger.error(...); return False` - a
\* put_item that fails leaves nothing in the table and raises nothing, and no
\* handler reads the value returned
WithStore(out, db) ==
    IF db = "up" THEN out ELSE [out EXCEPT !.writes = <<>>]

\* trigger_next_step: `except Exception as e: logger.error(...); return
\* False` when lambda_client.invoke raises; no event is sent and no handler
\* reads the value returned
WithInvoker(out, inv) ==
    IF inv = "up" THEN out ELSE [out EXCEPT !.disp = {}]

\* the handler of `step` with the sinks up or down
HandlerResult(step, ev, state, env, sink) ==
    WithSinks(HandlerOutcome(step, ev, state, env), sink)

\* what the handler of `step` finds when it looks up the resource it is
\* about to create or remove, or is waiting for: delete_rds, restore_snapshot
\* and check_restore_status describe the target cluster, archive_snapshot and
\* check_copy_status the copied snapshot
Found(step, env) ==
    IF step \in {"delete_rds", "restore_snapshot", "check_restore_status"} THEN cluster
    ELSE IF step = "archive_snapshot"
    THEN SnapshotStatus(load_state.target_snapshot_name)
    ELSE IF step = "check_copy_status" THEN DescribeSnapshot("snap-copy", env)
    ELSE None

\* the events still pending once the delivery d is made
Remaining(d) == IF d.src = "queue" THEN pending \ {d.ev} ELSE pending

\* a delivery uses up what it came from
Deliver(d) ==
    /\ opsLeft' = IF d.src = "operator" THEN opsLeft - 1 ELSE opsLeft
    /\ dupLeft' = IF d.src = "dup" THEN dupLeft - 1 ELSE dupLeft

\* lambda_handler of `step` runs from its load_state, which gave `state`, to
\* its return: what it saved, sent, logged and did to the cloud takes effect
Apply(step, d, state, env, remaining) ==
    \E out \in {WithInvoker(WithStore(HandlerResult(step, d.ev, state, env, sinks),
                                     statedb), invoker)} :
        /\ Len(store) + Len(out.writes) <= MaxRecords
        /\ store' = store \o out.writes
        /\ pending' = remaining \cup out.disp
        /\ ssnap' = out.ssnap
        /\ tsnap' = out.tsnap
        /\ cluster' = out.cluster
        /\ last' = [step |-> step, src |-> d.src, status |-> out.status,
                    cause |-> out.cause,
                    prevWriter |-> state.writer,
                    prevSuccess |-> state.success,
                    prevTarget |-> state.target_snapshot_name,
                    found |-> Found(step, env),
                    wrote |-> out.writes,
                    disp |-> {e.step : e \in out.disp},
                    calls |-> out.calls,
                    attempts |-> out.attempts,
                    audits |-> out.audits]
        /\ UNCHANGED <<cfg, roles, res, sinks,
          statedb, table, invoker>>

\* one invocation of the handler of `step`, alone: nothing else runs between
\* its load_state and its return
Invoke(step, d, env) ==
    /\ inflight = {}
    /\ Apply(step, d, load_state, env, Remaining(d))
    /\ Deliver(d)
    /\ UNCHANGED inflight

\* the cloud faults the calls of each handler can meet; a handler that fails
\* before its first cloud call meets none
FaultsOf(step) ==
    CASE step = "snapshot_check" -> {"ok", "empty_list"}
      [] step = "copy_snapshot" -> {"ok", "error1"}
      [] step = "check_copy_status" -> {"ok", "empty_list", "not_found", "error1"}
      [] step \in {"delete_rds", "archive_snapshot"} -> {"ok", "error1", "error2"}
      [] OTHER -> {"ok"}

SnapshotCheck ==
    \E d \in Deliveries("snapshot_check"), env \in FaultsOf("snapshot_check") :
        Invoke("snapshot_check", d, env)

CopySnapshot ==
    \E d \in Deliveries("copy_snapshot"), env \in FaultsOf("copy_snapshot") :
        Invoke("copy_snapshot", d, env)

CheckCopyStatus ==
    \E d \in Deliveries("check_copy_status"), env \in FaultsOf("check_copy_status") :
        Invoke("check_copy_status", d, env)

DeleteRds ==
    \E d \in Deliveries("delete_rds"), env \in FaultsOf("delete_rds") :
        Invoke("delete_rds", d, env)

CheckDeleteStatus ==
    \E d \in Deliveries("check_delete_status"), env \in FaultsOf("check_delete_status") :
        Invoke("check_delete_status", d, env)

RestoreSnapshot ==
    \E d \in Deliveries("restore_snapshot"), env \in FaultsOf("restore_snapshot") :
        Invoke("restore_snapshot", d, env)

CheckRestoreStatus ==
    \E d \in Deliveries("check_restore_status"), env \in FaultsOf("check_restore_status") :
        Invoke("check_restore_status", d, env)

SetupDbUsers ==
    \E d \in Deliveries("setup_db_users"), env \in FaultsOf("setup_db_users") :
        Invoke("setup_db_users", d, env)

VerifyRestore ==
    \E d \in Deliveries("verify_restore"), env \in FaultsOf("verify_restore") :
        Invoke("verify_restore", d, env)

ArchiveSnapshot ==
    \E d \in Deliveries("archive_snapshot"), env \in FaultsOf("archive_snapshot") :
        Invoke("archive_snapshot", d, env)

SnsNotification ==
    \E d \in Deliveries("sns_notification"), env \in FaultsOf("sns_notification") :
        Invoke("sns_notification", d, env)

\* the cloud finishes a snapshot copy: it becomes available, or it fails
CopyProgress ==
    /\ tsnap = "copying"
    /\ tsnap' \in {"available", "failed"}
    /\ UNCHANGED <<cfg, store, pending, ssnap, cluster, last, opsLeft, dupLeft,
                   inflight, roles, res, sinks,
          statedb, table, invoker>>

\* the cloud finishes the deletion of the target cluster
DeleteProgress ==
    /\ cluster = "deleting"
    /\ cluster' = "absent"
    /\ UNCHANGED <<cfg, store, pending, ssnap, tsnap, last, opsLeft, dupLeft,
                   inflight, roles, res, sinks,
          statedb, table, invoker>>

\* the cloud finishes the modification of the target cluster
ClusterSettles ==
    /\ cluster = "modifying"
    /\ cluster' = "available"
    /\ UNCHANGED <<cfg, store, pending, ssnap, tsnap, last, opsLeft, dupLeft,
                   inflight, roles, res, sinks,
          statedb, table, invoker>>

Next ==
    \/ SnapshotCheck
    \/ CopySnapshot
    \/ CheckCopyStatus
    \/ DeleteRds
    \/ CheckDeleteStatus
    \/ RestoreSnapshot
    \/ CheckRestoreStatus
    \/ SetupDbUsers
    \/ VerifyRestore
    \/ ArchiveSnapshot
    \/ SnsNotification
    \/ CopyProgress
    \/ DeleteProgress
    \/ ClusterSettles

Spec == Init /\ [][Next]_vars

\* the dispatcher delivers what is pending, the cloud finishes what it began
FairSpec == Spec /\ WF_vars(Next)

---------------------------------------------------------------------------
(* Resolution of the configuration *)

\* The value a configuration key has in each of its sources: the event, the
\* latest record, the environment of the function, the JSON document of the
\* parameter store.  None: the source does not define the key.
SourceValues(source) == {None, source}

\* the characters of the value of an environment variable
Chars == {"7", "a", " "}

Strings(n) == UNION {[1..k -> Chars] : k \in 0..n}

\* os.environ holds the variable with this string, or not at all
Unset == <<"unset">>

\* _get_default_config: 'port': 5432
DefaultPort == 5432

IntValue(n) == [type |-> "int", int |-> n, str |-> <<>>]

StrValue(str) == [type |-> "str", int |-> 0, str |-> str]

\* str.strip() of surrounding blanks, as int() does before it reads digits
RECURSIVE StripLeft(_)
StripLeft(str) ==
    IF Len(str) > 0 /\ Head(str) = " " THEN StripLeft(Tail(str)) ELSE str

RECURSIVE StripRight(_)
StripRight(str) ==
    IF Len(str) > 0 /\ str[Len(str)] = " "
    THEN StripRight(SubSeq(str, 1, Len(str) - 1))
    ELSE str

\* int(value) raises ValueError
IntRaises(str) ==
    LET digits == StripRight(StripLeft(str))
    IN  Len(digits) = 0 \/ \E i \in 1..Len(digits) : digits[i] # "7"

\* int(value) in base 10
RECURSIVE Int(_)
Int(str) ==
    LET digits == StripRight(StripLeft(str))
    IN  IF Len(digits) = 0 THEN 0
        ELSE 10 * Int(SubSeq(digits, 1, Len(digits) - 1)) + 7

\* common.get_config: the environment variable (default ''), then
\* config.update(json.loads(ssm_config))
GetConfigValue(environ, ssm) == IF ssm # None THEN ssm ELSE environ

\* check_copy_status: state.get(k) or event.get(k) or config.get(k)
CheckCopyStatusValue(event, state, environ, ssm) ==
    Or(state, Or(event, GetConfigValue(environ, ssm)))

\* ConfigManager.load_config: defaults, then _load_from_ssm,
\* _load_from_env_vars, _load_from_state, _load_from_event, each overwriting
\* the key when it has it
LoadConfigValue(event, state, environ, ssm) ==
    LET default == None
        after_ssm == IF ssm # None THEN ssm ELSE default
        after_env == IF environ # None THEN environ ELSE after_ssm
        after_state == IF state # None THEN state ELSE after_env
    IN  IF event # None THEN event ELSE after_state

\* ConfigManager._load_from_env_vars for PORT: `try: value = int(value)
\* except ValueError: warning`, then self._config[config_key] = value
LoadPortFromEnv(port, port_environ) ==
    IF port_environ = Unset THEN port
    ELSE IF IntRaises(port_environ) THEN StrValue(port_environ)
    ELSE IntValue(Int(port_environ))

\* ConfigManager._validate_config for port: a string is converted when
\* int() accepts it and is left as it is otherwise
ValidatePort(port) ==
    IF port.type = "str" /\ ~IntRaises(port.str) THEN IntValue(Int(port.str))
    ELSE port

LoadConfigPort(port_environ) ==
    ValidatePort(LoadPortFromEnv(IntValue(DefaultPort), port_environ))

\* the sources as one resolution finds them
Resolutions ==
    {[NoResolution EXCEPT !.phase = "sources", !.event = e, !.state = s,
                          !.environ = v, !.ssm = p, !.port_environ = q] :
        e \in SourceValues("event"), s \in SourceValues("state"),
        v \in SourceValues("environ"), p \in SourceValues("ssm"),
        q \in {Unset} \cup Strings(MaxLen)}

ResolveInit ==
    /\ cfg = CrossRegion
    /\ store = <<>>
    /\ pending = {}
    /\ ssnap = "available"
    /\ tsnap = "absent"
    /\ cluster = "available"
    /\ last = NoInvocation
    /\ opsLeft = 0
    /\ dupLeft = 0
    /\ inflight = {}
    /\ roles = NoRoles
    /\ sinks = "up"
    /\ statedb = "up"
    /\ invoker = "up"
    /\ table = NoTable
    /\ res \in Resolutions

\* a function handler resolves a key: get_config(), then its own
\* `state or event or config`
GetConfig ==
    /\ res.phase = "sources"
    /\ res' = [res EXCEPT
                !.phase = "resolved", !.by = "get_config",
                !.value = CheckCopyStatusValue(res.event, res.state,
                                               res.environ, res.ssm)]
    /\ UNCHANGED <<cfg, store, pending, ssnap, tsnap, cluster, last, opsLeft,
                   dupLeft, inflight, roles, sinks,
          statedb, table, invoker>>

\* a BaseHandler resolves its configuration: ConfigManager.load_config
LoadConfig ==
    /\ res.phase = "sources"
    /\ res' = [res EXCEPT
                !.phase = "resolved", !.by = "load_config",
                !.value = LoadConfigValue(res.event, res.state,
                                          res.environ, res.ssm),
                !.port = LoadConfigPort(res.port_environ)]
    /\ UNCHANGED <<cfg, store, pending, ssnap, tsnap, cluster, last, opsLeft,
                   dupLeft, inflight, roles, sinks,
          statedb, table, invoker>>

ResolveNext == GetConfig \/ LoadConfig

ResolveSpec == ResolveInit /\ [][ResolveNext]_vars

---------------------------------------------------------------------------
(* The state table: what save_state puts and what load_state reads *)

MaxSaves == 3
MaxClock == 2

\* the sort-key attribute of the table next to the partition key
\* operation_id: load_state(operation_id, step) reads
\* get_item(Key={'operation_id', 'step'}), load_state(operation_id) reads
\* the item of the greatest sort key and every handler takes that for the
\* latest in time
KeySchemas == {"step", "timestamp"}

\* the dictionaries the handlers hand to save_state at time `now`
\* (int(time.time()), whole seconds)
SaveDicts(now) ==
    {[operation_id |-> "op", snapshot_name |-> "snap", status |-> "copying",
      timestamp |-> now, success |-> TRUE],
     [operation_id |-> "op", error |-> "e", timestamp |-> now,
      success |-> FALSE],
     [operation_id |-> "op", target_snapshot_name |-> "snap-copy",
      status |-> "available", timestamp |-> now, success |-> TRUE],
     [operation_id |-> "op", target_cluster_id |-> "cluster",
      status |-> "deleting", timestamp |-> now, success |-> TRUE]}

\* save_state: state['operation_id'] = operation_id; a timestamp is added
\* when the dictionary has none
Stamped(dict, now) ==
    [a \in DOMAIN dict \cup {"operation_id", "timestamp"} |->
        IF a \in DOMAIN dict /\ a # "operation_id" THEN dict[a]
        ELSE IF a = "operation_id" THEN "op" ELSE now]

\* state_table.put_item(Item=state): an item without the key attribute is
\* rejected (save_state logs the error and returns False); otherwise the
\* item replaces the one of the same key
put_item(items, item, key) ==
    IF key \notin DOMAIN item THEN items
    ELSE {i \in items : i[key] # item[key]} \cup {item}

\* load_state without a step: query(ScanIndexForward=False, Limit=1), the
\* item of the greatest sort key, or {} (here <<>>) when there is none
query_latest(items, key) ==
    IF items = {} THEN <<>>
    ELSE CHOOSE i \in items : \A j \in items : i[key] >= j[key]

TableInit ==
    /\ cfg = CrossRegion
    /\ store = <<>>
    /\ pending = {}
    /\ ssnap = "available"
    /\ tsnap = "absent"
    /\ cluster = "available"
    /\ last = NoInvocation
    /\ opsLeft = 0
    /\ dupLeft = 0
    /\ inflight = {}
    /\ roles = NoRoles
    /\ res = NoResolution
    /\ sinks = "up"
    /\ statedb = "up"
    /\ invoker = "up"
    /\ table \in {[NoTable EXCEPT !.key = k] : k \in KeySchemas}

\* a handler saves its record
SaveState ==
    /\ Len(table.saves) < MaxSaves
    /\ \E dict \in SaveDicts(table.now) :
          LET item == Stamped(dict, table.now) IN
          table' = [table EXCEPT
                      !.items = put_item(table.items, item, table.key),
                      !.saves = Append(table.saves, item)]
    /\ UNCHANGED <<cfg, store, pending, ssnap, tsnap, cluster, last, opsLeft,
                   dupLeft, inflight, roles, res, sinks, statedb,
                   invoker>>

\* a second passes
Tick ==
    /\ table.now < MaxClock
    /\ table' = [table EXCEPT !.now = table.now + 1]
    /\ UNCHANGED <<cfg, store, pending, ssnap, tsnap, cluster, last, opsLeft,
                   dupLeft, inflight, roles, res, sinks, statedb,
                   invoker>>

TableNext == SaveState \/ Tick

TableSpec == TableInit /\ [][TableNext]_vars

---------------------------------------------------------------------------
(* Invocations that overlap *)

StepNames ==
    {"snapshot_check", "copy_snapshot", "check_copy_status", "delete_rds",
     "check_delete_status", "restore_snapshot", "check_restore_status",
     "setup_db_users", "verify_restore", "archive_snapshot", "sns_notification"}

\* a handler is invoked and runs up to its load_state(operation_id); nothing
\* in trigger_next_step, load_state or save_state keeps a second invocation
\* for the operation from starting meanwhile
BeginInvocation ==
    \E step \in StepNames : \E d \in Deliveries(step) :
        /\ Cardinality(inflight) < MaxInFlight
        /\ inflight' = inflight \cup {[step |-> step, d |-> d, state |-> load_state]}
        /\ pending' = Remaining(d)
        /\ Deliver(d)
        /\ UNCHANGED <<cfg, store, ssnap, tsnap, cluster, last, roles, res,
                       sinks,
          statedb, table, invoker>>

\* a running invocation goes on from the state it loaded to its return
FinishInvocation ==
    \E inv \in inflight, env \in {"ok", "error1"} :
        /\ Apply(inv.step, inv.d, inv.state, env, pending)
        /\ inflight' = inflight \ {inv}
        /\ UNCHANGED <<opsLeft, dupLeft>>

ConcNext ==
    \/ BeginInvocation
    \/ FinishInvocation
    \/ CopyProgress
    \/ DeleteProgress
    \/ ClusterSettles

ConcSpec == Init /\ [][ConcNext]_vars

---------------------------------------------------------------------------
(* The claims *)

\* the canonical chain of the steps
Chain ==
    <<"snapshot_check", "copy_snapshot", "check_copy_status", "delete_rds",
      "check_delete_status", "restore_snapshot", "check_restore_status",
      "setup_db_users", "verify_restore", "archive_snapshot", "sns_notification">>

Position(step) == CHOOSE i \in 1..Len(Chain) : Chain[i] = step

\* b may come right after a in the chain: the next step, a polling step
\* again, or restore_snapshot right after delete_rds (nothing to delete)
Follows(a, b) ==
    \/ Position(b) = Position(a) + 1
    \/ a = b /\ a \in PollingSteps
    \/ a = "delete_rds" /\ b = "restore_snapshot"

Invoked == last.step # None

Failed == last.status >= 400

WroteSuccess == \E i \in 1..Len(last.wrote) : last.wrote[i].success = "true"

WroteFailure ==
    /\ Len(last.wrote) > 0
    /\ last.wrote[Len(last.wrote)].success = "false"
    /\ last.wrote[Len(last.wrote)].error # None

\* the cloud calls that create or remove something
Mutating == {"copy", "delete", "delete_snapshot"}

\* the invocation did what its step is for: a mutating cloud call, or a
\* record saying the step succeeded
Acted == last.calls \cap Mutating # {} \/ WroteSuccess

\* C1: the records of an operation, in write order, walk the canonical chain
\* from snapshot_check on, only polling steps repeat, and at most one record
\* has success = false, which is then the last one
C1_RecordsFollowChain ==
    /\ Len(store) > 0 => store[1].writer = "snapshot_check"
    /\ \A i \in 2..Len(store) : Follows(store[i-1].writer, store[i].writer)
    /\ \A i \in 1..Len(store) : store[i].success = "false" => i = Len(store)

\* C2: an invocation whose outcome is a failure (a 4xx or 5xx answer, or a
\* record with success = false) dispatches nothing, neither a successor nor
\* the handler itself
C2_NoDispatchOnFailure ==
    (Invoked /\ (Failed \/ WroteFailure)) => last.disp = {}

\* C2, witness: check_copy_status found the copy failed, saved success = false
\* and answered 500
C2_Witness ==
    /\ last.step = "check_copy_status"
    /\ last.cause = "op_failed"
    /\ WroteFailure
    /\ last.status = 500

\* C3: a handler other than snapshot_check acts only when the latest record
\* was written with success = true by its predecessor in the chain, or by
\* itself when it is a polling step
C3_ActsOnlyAfterPredecessor ==
    (Invoked /\ last.step # "snapshot_check" /\ Acted) =>
        /\ last.prevSuccess = "true"
        /\ Follows(last.prevWriter, last.step)

\* C4: a handler other than snapshot_check that finds the latest record with
\* success = false answers 400, makes no cloud call, saves no record and
\* dispatches nothing
C4_RejectsAfterFailedStep ==
    (Invoked /\ last.step # "snapshot_check"
        /\ last.prevWriter # None /\ last.prevSuccess = "false") =>
        /\ last.status = 400
        /\ last.calls = {}
        /\ last.wrote = <<>>
        /\ last.disp = {}

\* C5: a handler other than snapshot_check invoked when the operation has no
\* record at all answers 4xx, makes no mutating cloud call, saves no record
\* with success = true and dispatches nothing
C5_RejectsWithoutRecord ==
    (Invoked /\ last.step # "snapshot_check" /\ last.prevWriter = None) =>
        /\ last.status \in 400..499
        /\ last.calls = {}
        /\ ~WroteSuccess
        /\ last.disp = {}

\* C6: across regions, a copy_snapshot invocation that arrives when the
\* record of an earlier successful copy_snapshot invocation is the latest one
\* (and that meets no cloud fault other than the target being there already)
\* issues no second copy call and answers success with the same
\* target_snapshot_name
C6_CopyIsIdempotent ==
    (last.step = "copy_snapshot" /\ last.prevWriter = "copy_snapshot"
        /\ last.prevSuccess = "true" /\ last.cause # "cloud_error"
        /\ cfg.source_region # cfg.target_region) =>
        /\ "copy" \notin last.calls
        /\ last.status = 200
        /\ WroteSuccess
        /\ last.wrote[Len(last.wrote)].target_snapshot_name = last.prevTarget

\* the run was started on the happy path: snapshot_check invoked with a date
\* that parses (or none) under a complete, valid configuration, and no
\* lookup of the snapshot came back empty or failed
HappyStart ==
    /\ last.step = "snapshot_check"
    /\ last.cause \notin {"invalid_date", "artifact_missing"}
    /\ cfg \in {CrossRegion, SameRegion}

SnsDone ==
    \E i \in 1..Len(store) :
        store[i].writer = "sns_notification" /\ store[i].success = "true"

\* C7: a run started on the happy path eventually has a record of
\* sns_notification with success = true
C7_HappyPathCompletes == HappyStart ~> SnsDone

\* C8: a handler invoked again after it saved a record with success = false
\* itself is not turned away as "previous step failed": it runs its action,
\* and when that succeeds it saves success = true and dispatches
C8_ReplayRunsAgain ==
    (Invoked /\ last.prevWriter = last.step /\ last.prevSuccess = "false") =>
        /\ last.cause # "prev_failed"
        /\ (~Failed => WroteSuccess /\ last.disp # {})

\* C9: an invocation that fails because of a cloud error or an internal
\* error saves a record with success = false and a non-empty error
C9_FailureIsRecorded ==
    (Invoked /\ last.cause \in {"cloud_error", "internal_error", "op_failed"}) =>
        WroteFailure

\* the attributes a handler takes from the latest record and can take from
\* nowhere else (its configuration has no such key)
StateReads(step) ==
    IF step \in {"restore_snapshot", "archive_snapshot"}
    THEN {"target_snapshot_name"}
    ELSE IF step = "check_copy_status" THEN {"target_snapshot_name"}
    ELSE IF step = "setup_db_users" THEN {"cluster_endpoint"}
    ELSE {}

\* the run copied the snapshot and every record since says success = true
CopiedAndWell ==
    /\ Len(store) > 0
    /\ store[1].writer = "copy_snapshot"
    /\ \A i \in 1..Len(store) : store[i].success = "true"
    /\ \A i \in 2..Len(store) : Follows(store[i-1].writer, store[i].writer)

\* C10: when a step has saved success = true and dispatched its successor,
\* the latest record holds every attribute the successor reads from it (in a
\* run that copied the snapshot and has gone down the chain since, the
\* dispatcher delivering the events)
C10_RecordFeedsSuccessor ==
    \A e \in pending :
        (CopiedAndWell /\ last.src = "queue"
            /\ load_state.writer = e.body.writer /\ e.body.writer # e.step) =>
            \A f \in StateReads(e.step) : load_state[f] # None

\* the latest record is the one a completed run ends with: written by
\* sns_notification, success = true, the copy archived, the endpoint known
TerminalRecord ==
    /\ ~StateIsEmpty(load_state)
    /\ load_state.writer = "sns_notification"
    /\ load_state.success = "true"
    /\ load_state.status = "deleted"
    /\ load_state.cluster_endpoint # None

\* C11: a cross-region run started on the happy path, the source snapshot
\* present, comes to a latest record written by sns_notification that has
\* success = true, the archive status "deleted" and a cluster endpoint
C11_TerminalRecord ==
    (HappyStart /\ cfg = CrossRegion /\ ssnap = "available") ~> TerminalRecord

\* the state table has a record of `step` with this success flag
HasRecord(step, success) ==
    \E i \in 1..Len(store) : store[i].writer = step /\ store[i].success = success

\* C12: every audit event has a record of its step with a compatible success
\* flag: a "failed" event a record with success = false, a "success" event a
\* record with success = true (the events are those of the latest invocation;
\* records are never removed, so this covers every event ever emitted)
C12_AuditHasRecord ==
    \A a \in last.audits :
        /\ a.status = "failed" => HasRecord(a.step, "false")
        /\ a.status = "success" => HasRecord(a.step, "true")

\* the latest invocation was of `step`, under a complete configuration, on a
\* latest record that said success = true and named the copied snapshot
WellInvoked(step) ==
    /\ last.step = step
    /\ cfg \in {CrossRegion, SameRegion}
    /\ last.prevSuccess = "true"
    /\ last.prevTarget # None

\* C14: restore_snapshot invoked while the target cluster exists calls
\* nothing that changes the cloud, saves a record with success = true and
\* the restore status "already_exists", and dispatches no step
C14_RestoreOntoExisting ==
    (WellInvoked("restore_snapshot") /\ last.found # "absent") =>
        /\ last.calls = {}
        /\ Len(last.wrote) = 1
        /\ last.wrote[1].success = "true"
        /\ last.wrote[1].status = "already_exists"
        /\ last.disp = {}

\* C15: check_restore_status invoked while the target cluster has the status
\* "failed" answers 500, saves a record with success = false and an error
\* saying so, and dispatches no step
C15_RestoreFailureRecorded ==
    (WellInvoked("check_restore_status") /\ last.found = "failed") =>
        /\ last.status = 500
        /\ WroteFailure
        /\ last.disp = {}

\* C16: snapshot_check invoked with a date that parses, under a complete
\* configuration, while the source region holds no snapshot of that date,
\* answers 404, saves a record of snapshot_check with success = false and an
\* error, and dispatches no step
C16_MissingSnapshotRecorded ==
    (/\ last.step = "snapshot_check"
     /\ cfg \in {CrossRegion, SameRegion}
     /\ last.cause # "invalid_date"
     /\ ssnap = "absent") =>
        /\ last.status = 404
        /\ WroteFailure
        /\ last.wrote[Len(last.wrote)].writer = "snapshot_check"
        /\ last.disp = {}

\* the latest invocation got past the checks of its input: a usable latest
\* record and every parameter it needs
PastChecks ==
    last.cause \notin {"no_state", "prev_failed", "missing_params", "validation"}

C18_CopyRetriedThenRecorded ==
    (last.step = "copy_snapshot" /\ last.cause = "cloud_error") =>
        /\ last.attempts = MAX_ATTEMPTS
        /\ WroteFailure
        /\ last.disp = {}

\* the invocations the dispatcher started (deliveries and redeliveries of
\* dispatched events) that have loaded the latest record and not yet returned
InFlight == {inv \in inflight : inv.d.src \in {"queue", "dup"}}

\* C13: under at-least-once delivery no two invocations of an operation are
\* at the same time between their load of the latest record and their return
C13_OneInFlight == Cardinality(InFlight) <= 1

\* before the latest invocation ran, delete_rds had already saved a record
\* with success = true for the operation
DeleteRdsSucceededBefore ==
    \E i \in 1..(Len(store) - Len(last.wrote)) :
        store[i].writer = "delete_rds" /\ store[i].success = "true"

\* C19: delete_rds invoked again after it succeeded for the operation, no
\* cloud call failing, saves success = true without starting the deletion of
\* a cluster and dispatches restore_snapshot
C19_DeleteRdsIsIdempotent ==
    (/\ last.step = "delete_rds"
     /\ DeleteRdsSucceededBefore
     /\ PastChecks
     /\ last.cause # "cloud_error") =>
        /\ last.status = 200
        /\ Len(last.wrote) = 1
        /\ last.wrote[1].success = "true"
        /\ last.wrote[1].status # "deleting"
        /\ last.disp = {"restore_snapshot"}

\* C20: in a cross-region run archive_snapshot, no cloud call failing, saves
\* a record with success = true: with the archive status "deleted", the copy
\* gone, when it found the copied snapshot available; and when it is invoked
\* again and finds the copy gone it makes no delete call and records the
\* archive status "skipped"
C20_ArchiveIsIdempotent ==
    (/\ WellInvoked("archive_snapshot")
     /\ cfg = CrossRegion
     /\ last.found \in {"available", "absent"}
     /\ last.cause # "cloud_error") =>
        /\ Len(last.wrote) = 1
        /\ last.wrote[1].success = "true"
        /\ last.found = "available" =>
            last.wrote[1].status = "deleted" /\ tsnap = "absent"
        /\ last.found = "absent" =>
            last.wrote[1].status = "skipped" /\ "delete_snapshot" \notin last.calls

\* C21: once setup_db_users has run for an operation whose latest record
\* says success = true, under a complete configuration and with the target
\* cluster available, both roles exist with the password of the secret and
\* their privileges, and running the role SQL once more changes nothing:
\* the database is what one run leaves, however often the handler ran
C21_SetupDbUsersIsIdempotent ==
    (/\ last.step = "setup_db_users"
     /\ cfg \in {CrossRegion, SameRegion}
     /\ last.prevSuccess = "true"
     /\ cluster = "available") =>
        /\ \A r \in RoleNames : roles[r].exists /\ roles[r].password = Secret(r)
        /\ roles = SetupUsersSql(roles)
        /\ roles = SetupUsersSql(NoRoles)

\* the value of the highest-priority source that defines the key, in the
\* order event > latest record > environment > parameter store > default
HighestPriority(event, state, environ, ssm) ==
    Or(event, Or(state, Or(environ, Or(ssm, None))))

\* C22: the value a handler acts on for a configuration key is the one of
\* the highest-priority source that defines the key: event, then latest
\* record, then environment, then parameter store, then default
C22_HighestSourceWins ==
    res.phase = "resolved" =>
        res.value = HighestPriority(res.event, res.state, res.environ, res.ssm)

\* C23: an integer key (PORT) given a value that int() does not accept keeps
\* its prior value: after the resolution the key holds an integer, the
\* default when PORT was no integer
C23_PortStaysInteger ==
    (res.phase = "resolved" /\ res.by = "load_config") =>
        /\ res.port.type = "int"
        /\ (res.port_environ # Unset /\ IntRaises(res.port_environ)) =>
                res.port.int = DefaultPort

\* what an invocation answers, saves, dispatches and does to the cloud:
\* all of its outcome but the audit events that reached the sink
Effect(out) == [out EXCEPT !.audits = {}]

IsCalendarDate(d) ==
    /\ d[2] \in 1..12
    /\ d[3] >= 1
    /\ d[3] <= (IF d[2] = 2
                THEN (IF d[1] % 4 = 0 /\ (d[1] % 100 # 0 \/ d[1] % 400 = 0)
                      THEN 29 ELSE 28)
                ELSE IF d[2] \in {4, 6, 9, 11} THEN 30 ELSE 31)

Successors(step) ==
    IF step = "delete_rds" THEN {"check_delete_status", "restore_snapshot"}
    ELSE IF step = "sns_notification" THEN {}
    ELSE {Chain[Position(step) + 1]}

\* the latest invocation answered 200 and saved a record with success = true:
\* it succeeded, and not by deciding to poll again (that is answered 202)
Succeeded == Invoked /\ last.status = 200 /\ WroteSuccess

Polled(step) ==
    /\ last.step = step
    /\ cfg \in {CrossRegion, SameRegion}
    /\ last.prevSuccess = "true"
    /\ last.cause # "cloud_error"

\* the latest invocation decided to poll again: a record with success = true,
\* one event to its own step, statusCode 202
PollsAgain ==
    /\ last.status = 202
    /\ WroteSuccess
    /\ last.disp = {last.step}

\* C27: a polling step that finds its cloud operation still in progress
\* (check_copy_status the copy copying, check_delete_status the cluster
\* deleting, check_restore_status the cluster not yet available) saves a
\* record with success = true, dispatches one event to itself and answers
\* 202; and no invocation answers 202 without having dispatched to itself
C27_PollingStepsPollAgain ==
    /\ (Polled("check_copy_status") /\ cfg = CrossRegion /\ tsnap = "copying")
            => PollsAgain
    /\ (Polled("check_delete_status") /\ cluster = "deleting") => PollsAgain
    /\ (Polled("check_restore_status") /\ last.found = "modifying") => PollsAgain
    /\ (Invoked /\ last.status = 202) => last.disp = {last.step}

\* C28: check_copy_status that does not find the copied snapshot in the
\* target region, whether the lookup answers an empty list or raises the
\* not-found fault, saves a record with success = true and the status
\* "waiting", dispatches one event to itself and answers 202; it saves no
\* record with success = false
C28_CopyNotFoundWaits ==
    (/\ Polled("check_copy_status")
     /\ cfg = CrossRegion
     /\ last.prevTarget = "snap-copy"
     /\ last.calls = {"describe_snapshots"}
     /\ last.found = "absent") =>
        /\ PollsAgain
        /\ Len(last.wrote) = 1
        /\ last.wrote[1].status = "waiting"

\* the records with which check_copy_status said it would poll again: each
\* was saved together with one event to check_copy_status
IsPoll(record) ==
    /\ record.writer = "check_copy_status"
    /\ record.success = "true"
    /\ record.status # "available"

\* how many times in a row, at the end of the records, check_copy_status
\* dispatched itself
ConsecutivePolls(records) ==
    Cardinality({i \in 1..Len(records) :
                    \A j \in i..Len(records) : IsPoll(records[j])})

\* the records as the latest invocation found them
RecordsBefore == SubSeq(store, 1, Len(store) - Len(last.wrote))

\* C29: check_copy_status never dispatches itself more than max_copy_attempts
\* times in a row for one operation: invoked when it has done so that often
\* and the copy is still not found or still copying, it saves no record with
\* success = true and dispatches nothing
C29_CopyPollingIsBounded ==
    /\ ConsecutivePolls(store) <= MaxCopyAttempts
    /\ (/\ Polled("check_copy_status")
        /\ last.found \in {"absent", "copying"}
        /\ ConsecutivePolls(RecordsBefore) >= MaxCopyAttempts) =>
            ~WroteSuccess /\ last.disp = {}

\* C30: delete_rds calls delete_db_cluster only for a target cluster that
\* exists with the status available, stopped or failed; finding it absent or
\* in another status, and no cloud call failing, it makes no delete call,
\* saves a record with success = true and dispatches restore_snapshot
C30_DeletesOnlyDeletable ==
    last.step = "delete_rds" =>
        /\ "delete" \in last.calls => Deletable(last.found)
        /\ (/\ "describe_clusters" \in last.calls
            /\ last.cause # "cloud_error"
            /\ ~Deletable(last.found)) =>
                /\ "delete" \notin last.calls
                /\ WroteSuccess
                /\ last.disp = {"restore_snapshot"}

\* C31: when two invocations of restore_snapshot for the operation overlap,
\* each started on a latest record with success = true under a complete
\* configuration, the one that returns first while the other is still
\* running has not failed: it answers below 400, has saved a record with
\* success = true, and the target cluster exists
C31_RestoreToleratesDuplicate ==
    (/\ last.step = "restore_snapshot"
     /\ cfg \in {CrossRegion, SameRegion}
     /\ last.prevSuccess = "true"
     /\ last.cause # "cloud_error"
     /\ \E inv \in inflight :
            inv.step = "restore_snapshot" /\ inv.state.success = "true") =>
        /\ last.status < 400
        /\ WroteSuccess
        /\ cluster # "absent"

\* C33: an invocation answers with success, or dispatches, only when the
\* record it saved is in the state table; and an invocation the dispatcher
\* started never finds the table without a record of the operation
C33_SuccessOnlyAfterSave ==
    /\ (Invoked /\ (last.status < 400 \/ last.disp # {})) => WroteSuccess
    /\ (Invoked /\ last.src \in {"queue", "dup"}) => last.prevWriter # None

\* C32: after any saves for the operation, load_state without a step
\* returns the record that was saved last in time
C32_LoadReturnsLatestSave ==
    table.saves # <<>> =>
        query_latest(table.items, table.key) = table.saves[Len(table.saves)]

\* C34: every record handed to save_state, and every item of the table,
\* carries operation_id, step, timestamp and a boolean success, and the
\* table holds one item for each step
C34_RecordsAreComplete ==
    /\ \A n \in 1..Len(table.saves) :
          /\ {"operation_id", "step", "timestamp", "success"}
                 \subseteq DOMAIN table.saves[n]
          /\ table.saves[n].success \in BOOLEAN
    /\ \A i \in table.items :
          {"operation_id", "step", "timestamp", "success"} \subseteq DOMAIN i
    /\ \A i, j \in table.items : i["step"] = j["step"] => i = j

\* C35: an invocation that finds a required key or input missing or empty
\* answers with a 4xx status, has issued no cloud call, has written no
\* success record and has dispatched nothing
C35_MissingInputIsRejectedEarly ==
    (Invoked /\ last.cause = "missing_params") =>
        /\ last.status \in 400..499
        /\ last.calls = {}
        /\ ~WroteSuccess
        /\ last.disp = {}

C36_SuccessMeansEnqueued ==
    (Succeeded /\ last.step # "sns_notification") =>
        /\ last.disp # {}
        /\ \E e \in pending : e.step \in last.disp

C39_RestoreNotOnStaleCluster ==
    /\ (last.step = "restore_snapshot" /\ WroteSuccess) =>
            ~(last.found = "deleting"
              /\ last.wrote[Len(last.wrote)].status = "already_exists")
    /\ (last.step = "restore_snapshot" /\ last.src \in {"queue", "dup"}) =>
            last.found # "deleting"

\* C40: snapshot_check, invoked with no date or a calendar date under a
\* configuration with a source cluster and a valid source region, is not
\* answered 400; and it answers "Invalid source region" only when the
\* source region is none of the valid regions
C40_ValidRegionIsAccepted ==
    /\ (/\ last.step = "snapshot_check"
        /\ cfg.source_region \in ValidRegions
        /\ cfg.source_cluster_id # None) =>
            (last.status = 400 => last.cause = "invalid_date")
    /\ (last.step = "snapshot_check" /\ last.cause = "invalid_region") =>
            cfg.source_region \notin ValidRegions

=============================================================================
